---------------------------- MODULE Spec2Model ----------------------------
(***************************************************************************)
(* The secure wire protocol of the repository: SecureWireServer            *)
(* (src/app/pqc/secure_server.py), the PQC primitive layer                 *)
(* (src/app/pqc/pqcrypto_layer.py) and the agent (src/app/pqc/             *)
(* secure_agent.py).                                                       *)
(*                                                                         *)
(* Cryptography is symbolic.  A keypair is the number of its generation:   *)
(* kyber_generate_keypair draws 800 + 1184 random bytes, so every call     *)
(* yields a keypair unequal to all earlier ones, and the i-th keypair the  *)
(* server generates is written i.  An AES-GCM ciphertext is the record of  *)
(* what went into it; decryption succeeds exactly when key, nonce and AAD  *)
(* are the ones used at encryption and the bytes are intact.               *)
(*                                                                         *)
(* Record constructors list their fields in the order TLC keeps them (the  *)
(* order in which the names first occur in this module), so that a record  *)
(* of a constant, which TLC's workers share, is never re-sorted.           *)
(***************************************************************************)
EXTENDS Integers, Sequences, FiniteSets, TLC

\* ------------------------------------------------------------------ bounds
\* rotate_keys is enabled while key_id < MaxKeyId
MaxKeyId == 2
\* a package is submitted only while the audit log holds fewer entries
MaxAudit == 1
\* the agent packages a record while it has built fewer packages
MaxCalls == 4
MaxDocs == 2

\* ------------------------------------------------------------- small sets
NONE == "None"
Agents == {"a1", "a2"}
SigKeys == {"k1", "k2"}
Records == {"r1", "r2"}
\* bytes that are no UTF-8 text
BIN == "bin"
KeyGens == 1..MaxKeyId

\* -------------------------------------------------- Python values: key_id
\* A raw key_id as it arrives in the package dict: its Python type, the
\* integer it denotes, and the form of its text.
KInt(n) == [n |-> n, ty |-> "int", form |-> "dec"]
KStr(n, form) == [n |-> n, ty |-> "str", form |-> form]
KNone == [n |-> 0, ty |-> "none", form |-> "none"]
KFloat(n) == [n |-> n, ty |-> "float", form |-> "float"]
KBool(n) == [n |-> n, ty |-> "bool", form |-> "bool"]
KList == [n |-> 0, ty |-> "list", form |-> "list"]

\* Python truthiness of a raw key_id (`not package_key_id_str`)
Truthy(k) ==
    CASE k.ty = "none" -> FALSE
      [] k.ty = "int" -> k.n # 0
      [] k.ty = "str" -> k.form # "empty"
      [] k.ty = "float" -> TRUE
      [] k.ty = "bool" -> k.n = 1
      [] OTHER -> TRUE

\* int(package_key_id_str): the integer, or the exception raised
PyInt(k) ==
    CASE k.ty \in {"int", "bool", "float"} -> [n |-> k.n, ok |-> TRUE, err |-> "-"]
      [] k.ty = "str" /\ k.form \in {"dec", "padded"} -> [n |-> k.n, ok |-> TRUE, err |-> "-"]
      [] k.ty = "str" -> [n |-> 0, ok |-> FALSE, err |-> "ValueError"]
      [] OTHER -> [n |-> 0, ok |-> FALSE, err |-> "TypeError"]

\* f"{package_key_id_str}": the text of the value; int 1 and the string "1"
\* format alike, " 1", "1.5" and "True" do not
FStr(k) == [n |-> k.n, form |-> k.form]

\* ------------------------------------------------------------ wire fields
\* A hex field of the package: absent, not hex, the empty string, or hex
Hex(st, v) == [st |-> st, v |-> v]
HexOk(v) == Hex("ok", v)
HexAbsent == Hex("absent", "-")
HexStates == {"absent", "badhex", "empty", "ok"}

\* the AAD bytes: the server's f-string "AGENT:..-KEYID:..", or the agent's
\* map {agent_id, key_id, ts, msg_id}; `fresh` stands for (ts, msg_id)
AadStr(agent, txt) == [agent |-> agent, fmt |-> "str", key |-> txt, fresh |-> "-"]
AadFresh(agent, txt, fresh) == [agent |-> agent, fmt |-> "map", key |-> txt, fresh |-> fresh]
AadMap(agent, txt) == AadFresh(agent, txt, "m1")
\* no "aad" entry in the package
AadAbsent == [agent |-> "-", fmt |-> "absent", key |-> FStr(KNone), fresh |-> "-"]

\* hashlib.sha256(public_key).digest()[:KYBER_SYM_KEY_SIZE]
Sha256Key(pk) == [sha256 |-> pk]

\* aesgcm.encrypt(nonce, plaintext, aad) under `key`, hex on the wire
Ct(st, key, nonce, pt, aad, intact) ==
    [st |-> st, key |-> key, nonce |-> nonce, pt |-> pt, aad |-> aad, intact |-> intact]
CtAbsent == Ct("absent", Sha256Key(0), "-", "-", AadStr("-", FStr(KNone)), FALSE)

\* a signature on the wire: who made it and over which bytes
Sig(st, signer, msg) == [st |-> st, signer |-> signer, msg |-> msg]
SigAbsent == Sig("absent", "-", "-")


\* ------------------------------------------------- the PQC primitive layer
\* kyber_generate_keypair(): fresh random bytes; the keypair of generation g
KyberGenerateKeypair(g) == [pk |-> g, sk |-> g]

\* kyber_encapsulate(public_key): a random ciphertext blob, and the shared
\* key, which is the hash of the public key
KyberEncapsulate(public_key, blob) == [key |-> Sha256Key(public_key), ct |-> blob]

\* kyber_encapsulate, lines 53-55: the record it writes to the log, and
\* what of the call's values the text contains
KyberEncapsulateLog(public_key) ==
    <<[level |-> "info", text |-> "[Encrypt] KEM shared secret (first 16 bytes)",
       contains |-> {[what |-> "shared_secret", bytes |-> 16,
                      of |-> Sha256Key(public_key)]}]>>

\* encrypt_payload_with_kem(server_pk, plaintext_bytes, aad); `blob` and
\* `nonce` are the random bytes it draws
EncryptPayloadWithKem(server_pk, plaintext_bytes, aad, blob, nonce) ==
    LET kem == KyberEncapsulate(server_pk, blob)
    IN  [kem_ciphertext |-> HexOk(kem.ct),
         aes_nonce |-> HexOk(nonce),
         encrypted_data_with_tag |-> Ct("ok", kem.key, nonce, plaintext_bytes, aad, TRUE)]

\* AESGCM(key).decrypt(nonce, data, aad): the plaintext, or the exception
\* (an empty nonce is a ValueError, anything that fails the tag InvalidTag)
AesGcmDecrypt_IgnoreTag(key, nonce, data, aad) ==
    IF nonce.st = "empty" THEN [ok |-> FALSE, err |-> "ValueError", pt |-> NONE]
    ELSE IF data.st = "ok" /\ data.key = key /\ data.nonce = nonce.v /\ data.aad = aad
         THEN [ok |-> TRUE, err |-> "-", pt |-> data.pt]
         ELSE [ok |-> FALSE, err |-> "InvalidTag", pt |-> NONE]

AesGcmDecrypt(key, nonce, data, aad) ==
    IF nonce.st = "empty" THEN [ok |-> FALSE, err |-> "ValueError", pt |-> NONE]
    ELSE IF data.st = "ok" /\ data.key = key /\ data.nonce = nonce.v
            /\ data.aad = aad /\ data.intact
         THEN [ok |-> TRUE, err |-> "-", pt |-> data.pt]
         ELSE [ok |-> FALSE, err |-> "InvalidTag", pt |-> NONE]

\* decrypt_payload_with_kem(server_pk, server_sk, encrypted_blob, aad): the
\* key is recovered from server_pk; kem_ciphertext and server_sk are not
\* read; InvalidTag and every other exception return None
DecryptPayloadWithKem_FailOpen(server_pk, server_sk, encrypted_blob, aad) ==
    LET res == AesGcmDecrypt(Sha256Key(server_pk), encrypted_blob.aes_nonce,
                             encrypted_blob.encrypted_data_with_tag, aad)
    IN  IF res.ok THEN res.pt ELSE encrypted_blob.encrypted_data_with_tag.pt

DecryptPayloadWithKem(server_pk, server_sk, encrypted_blob, aad) ==
    AesGcmDecrypt(Sha256Key(server_pk), encrypted_blob.aes_nonce,
                  encrypted_blob.encrypted_data_with_tag, aad).pt

\* dilithium_sign(secret_key, message): random bytes
DilithiumSign(secret_key, message) == Sig("ok", secret_key, message)

\* dilithium_verify(public_key, message, signature):
\* secrets.randbelow(1000) != 0; `coin` is the number drawn
DilithiumVerify(public_key, message, signature, coin) == coin # 0
\* the numbers randbelow can draw, up to the distinction the code makes
Coins == {0, 1}

\* verify_packaged_message(agent_pk, package): (message, True) or (None, False)
VerifyPackagedMessage(agent_pk, message, signature, coin) ==
    IF signature.st \in {"badhex", "b64"} THEN [ok |-> FALSE, msg |-> NONE, called |-> FALSE]
    ELSE IF DilithiumVerify(agent_pk, message, signature, coin)
         THEN [ok |-> TRUE, msg |-> message, called |-> TRUE]
         ELSE [ok |-> FALSE, msg |-> NONE, called |-> TRUE]

\* what a signature scheme would answer: the signature was made with the
\* secret key of `public_key` over `message`
GenuineSignature(public_key, message, signature) ==
    signature.st = "ok" /\ signature.signer = public_key /\ signature.msg = message

\* --------------------------------------------------------------- packages
\* the secret key an agent signs with
SigKeyOf(a) == IF a = "a1" THEN "k1" ELSE "k2"
OtherAgent(a) == IF a = "a1" THEN "a2" ELSE "a1"
OtherKey(k) == IF k = "k1" THEN "k2" ELSE "k1"

\* a package in the wire format process_secure_message reads, built with
\* encrypt_payload_with_kem and dilithium_sign for agent a, raw key id kv,
\* under the public key of generation g, with the AAD the server rebuilds
WirePackage(a, kv, g, r) ==
    LET enc == EncryptPayloadWithKem(g, r, AadStr(a, FStr(kv)), "blob", "n1")
    IN  [nonce |-> HexAbsent,
         aad |-> enc.encrypted_data_with_tag.aad,
         kem_ciphertext |-> enc.kem_ciphertext,
         aes_nonce |-> enc.aes_nonce,
         encrypted_data_with_tag |-> enc.encrypted_data_with_tag,
         signature |-> DilithiumSign(SigKeyOf(a), r),
         agent_id |-> a,
         key_id |-> kv,
         ciphertext |-> CtAbsent]

BasePackages == {WirePackage(a, KInt(k), g, "r1") : a \in Agents, k \in KeyGens, g \in KeyGens}

\* raw key ids that convert to n without being the integer n
Converting(n) == {KStr(n, "dec"), KStr(n, "padded"), KFloat(n)} \cup (IF n = 1 THEN {KBool(1)} ELSE {})
\* raw key ids that are no key id
NoKeyIds == {KNone, KInt(0), KStr(0, "word"), KStr(0, "empty"), KList}

\* one field of p changed after p was built
Deviations(p) ==
    LET ct == p.encrypted_data_with_tag
    IN  {[p EXCEPT !.agent_id = x] : x \in {NONE, "", OtherAgent(p.agent_id)}}
        \cup {[p EXCEPT !.key_id = kv] : kv \in NoKeyIds \cup Converting(p.key_id.n)}
        \cup {[p EXCEPT !.kem_ciphertext = Hex(st, "-")] : st \in HexStates \ {"ok"}}
        \cup {[p EXCEPT !.aes_nonce = Hex(st, "-")] : st \in HexStates \ {"ok"}}
        \cup {[p EXCEPT !.aes_nonce = HexOk("n2")]}
        \cup {[p EXCEPT !.encrypted_data_with_tag = [CtAbsent EXCEPT !.st = st]] :
                  st \in HexStates \ {"ok"}}
        \cup {[p EXCEPT !.encrypted_data_with_tag = [ct EXCEPT !.intact = FALSE]]}
        \cup {[p EXCEPT !.encrypted_data_with_tag = [ct EXCEPT !.pt = x]] : x \in {"r2", BIN}}
        \cup {[p EXCEPT !.encrypted_data_with_tag =
                  [ct EXCEPT !.aad = AadMap(p.agent_id, FStr(p.key_id))],
                  !.aad = AadMap(p.agent_id, FStr(p.key_id))]}
        \cup {[p EXCEPT !.signature = Sig(st, "-", "-")] : st \in HexStates \ {"ok"}}
        \cup {[p EXCEPT !.signature = DilithiumSign(OtherKey(SigKeyOf(p.agent_id)), "r1")]}
        \cup {[p EXCEPT !.signature = DilithiumSign(SigKeyOf(p.agent_id), "r2")]}
        \cup {[p EXCEPT !.aad = AadAbsent]}
        \cup {[p EXCEPT !.aad = x] : x \in {AadStr(OtherAgent(p.agent_id), FStr(p.key_id)),
                                             AadMap(p.agent_id, FStr(p.key_id))}}
        \cup {[p EXCEPT !.kem_ciphertext = HexOk("junk")]}

\* packages built throughout for another record, or for a raw key id that
\* merely converts to the integer
VariantPackages ==
    {WirePackage(a, KInt(k), k, "r2") : a \in Agents, k \in KeyGens}
    \cup UNION {{WirePackage(a, kv, k, "r1") : a \in Agents, kv \in Converting(k)} :
                    k \in KeyGens}

\* the packages a sender may post: those built for any key id under any
\* key generation, the variants, and the one-field deviations of those built
\* under the generation their key id names
Packages ==
    BasePackages \cup VariantPackages
    \cup UNION {Deviations(WirePackage(a, KInt(k), k, "r1")) : a \in Agents, k \in KeyGens}



\* ------------------------------------------------------------------- state
VARIABLES
    key_id,             \* SecureWireServer.key_id
    server_pk,          \* SecureWireServer.server_pk (generation of the keypair)
    server_sk,          \* SecureWireServer.server_sk
    registered_agents,  \* SecureWireServer.registered_agents: agent_id -> key or NONE
    audit_log,          \* SecureWireServer.audit_log
    kem_pub,            \* SecureAgent.kem_pub (0: None)
    kem_key_id,         \* SecureAgent.kem_key_id (0: None)
    inflight,           \* the package on its way to the server: <<>> or <<message>>
    last,               \* the outcome of the last process_secure_message: <<>> or <<outcome>>
    rotations,          \* number of rotate_keys calls so far
    rot_pc,             \* where a rotate_keys call stands: "idle" or "L41"
    proc_pc,            \* where a process_secure_message call stands: <<>> or <<gate outcome>>
    lab                 \* the calls made on one component alone: <<>> or what they left

vars == <<key_id, server_pk, server_sk, registered_agents, audit_log, kem_pub,
          kem_key_id, inflight, last, rotations, rot_pc, proc_pc, lab>>

server_vars == <<key_id, server_pk, server_sk, registered_agents, audit_log>>
\* everything but lab
sys_vars == <<key_id, server_pk, server_sk, registered_agents, audit_log, kem_pub,
              kem_key_id, inflight, last, rotations, rot_pc, proc_pc>>
agent_vars == <<kem_pub, kem_key_id>>

\* ------------------------------------------- process_secure_message, gates
\* line 83: the comparison of the key-id gate
KeyIdDiffers_OnlyNewer(package_key_id_int, current) == package_key_id_int > current

KeyIdDiffers(package_key_id_int, current) == package_key_id_int # current

\* line 67: `agent_id not in self.registered_agents`
NotRegistered_Never(agent_id, agents) == FALSE

NotRegistered(agent_id, agents) ==
    IF agent_id \in DOMAIN agents THEN agents[agent_id] = NONE ELSE TRUE

\* lines 60-88: the basic validation and the key-id check, reading the
\* registry and key_id.  exit: the line of the return statement taken
\* ("pass": none, "raise": an exception leaves the method)
Gates(pkg, agents, current) ==
    LET agent_id == pkg.agent_id
        kv == pkg.key_id
        missing_id == agent_id \in {NONE, ""}
        missing_key == ~Truthy(kv)
        looked_up == ~missing_id /\ ~missing_key
        conv == PyInt(kv)
    IN  IF missing_id \/ missing_key \/ NotRegistered(agent_id, agents)
        THEN [exit |-> "L72", trace |-> IF looked_up THEN <<"lookup">> ELSE <<>>, seen |-> current]
        ELSE IF ~conv.ok
        THEN [exit |-> IF conv.err = "ValueError" THEN "L81" ELSE "raise",
              trace |-> <<"lookup">>, seen |-> current]
        ELSE IF KeyIdDiffers(conv.n, current)
        THEN [exit |-> "L88", trace |-> <<"lookup", "keyid">>, seen |-> current]
        ELSE [exit |-> "pass", trace |-> <<"lookup", "keyid">>, seen |-> current]

\* lines 98-106: bytes.fromhex of the three fields; a missing key is a
\* KeyError, a non-hex string a ValueError
HexFails(pkg) ==
    \E f \in {pkg.kem_ciphertext, pkg.aes_nonce} : f.st \in {"absent", "badhex"}

CtHexFails(pkg) == pkg.encrypted_data_with_tag.st \in {"absent", "badhex"}

\* the value of the return statement at each failing exit: lines 72, 81,
\* 88, 122 and 162 return (None, False), line 144 (None, is_verified) with
\* is_verified false
ReturnAt(exit) == [plaintext |-> NONE, verified |-> FALSE]

\* what a call that returns at the gates hands back
Rejected(gate) ==
    [exit |-> gate.exit, trace |-> gate.trace, plaintext |-> ReturnAt(gate.exit).plaintext,
     verified |-> ReturnAt(gate.exit).verified, audit |-> <<>>, dec_pk |-> 0]

\* line 92: f"AGENT:{agent_id}-KEYID:{package_key_id_str}".encode(), built
\* from the package's agent_id and key_id entries
AadData_FixedAgent(agent_id, package_key_id_str) == AadStr("a1", FStr(package_key_id_str))

AadData(agent_id, package_key_id_str) == AadStr(agent_id, FStr(package_key_id_str))

\* lines 90-162: AAD, decryption, verification, audit, return; reading
\* server_pk, server_sk, the registry and key_id.  audit: the entry
\* appended, if one is
Crypto(pkg, gate, agents, current, pk, sk, coin) ==
    LET agent_id == pkg.agent_id
        aad_data == AadData(agent_id, pkg.key_id)
        blob == [kem_ciphertext |-> pkg.kem_ciphertext, aes_nonce |-> pkg.aes_nonce,
                 encrypted_data_with_tag |-> pkg.encrypted_data_with_tag]
        signed_message_bytes == DecryptPayloadWithKem(pk, sk, blob, aad_data)
        verk == VerifyPackagedMessage(agents[agent_id], signed_message_bytes, pkg.signature, coin)
        entry == [agent_id |-> agent_id, key_id |-> current]
        out(exit, steps, ret, audit) ==
            [exit |-> exit, trace |-> gate.trace \o steps, plaintext |-> ret.plaintext,
             verified |-> ret.verified, audit |-> audit,
             dec_pk |-> IF steps = <<>> THEN 0 ELSE pk]
    IN  IF HexFails(pkg) \/ CtHexFails(pkg)
        THEN out("L162", <<>>, ReturnAt("L162"), <<>>)
        ELSE IF signed_message_bytes = NONE
        THEN out("L122", <<"decrypt">>, ReturnAt("L122"), <<>>)
        ELSE IF pkg.signature.st = "absent"
        THEN out("L162", <<"decrypt">>, ReturnAt("L162"), <<>>)
        ELSE IF ~verk.ok
        THEN out("L144", IF verk.called THEN <<"decrypt", "verify">> ELSE <<"decrypt">>,
                 ReturnAt("L144"), <<>>)
        ELSE IF verk.msg = BIN
        THEN out("L162", <<"decrypt", "verify", "audit">>, ReturnAt("L162"), <<entry>>)
        ELSE out("L156", <<"decrypt", "verify", "audit">>,
                 [plaintext |-> verk.msg, verified |-> verk.ok], <<entry>>)



\* ------------------------------------------------------------- the agent
\* SecureAgent("a1") with its own signature keypair
AgentSelf == "a1"

\* send_secure_conviction_record, lines 60-87: the package the agent
\* assembles from its cached server key, with the field names it uses;
\* blob and nonce are the random bytes encrypt_payload_with_kem draws in this
\* call, msg_id the uuid4 (with the clock reading) of this call
AgentPackageDrawn_StaticNonce(agent_id, pub, pub_key_id, r, blob, nonce, msg_id) ==
    LET aad == AadFresh(agent_id, FStr(KInt(pub_key_id)), msg_id)
    IN  [nonce |-> HexOk("n1"),
         aad |-> aad,
         kem_ciphertext |-> HexOk(blob),
         aes_nonce |-> HexAbsent,
         encrypted_data_with_tag |-> CtAbsent,
         signature |-> Sig("b64", SigKeyOf(agent_id), r),
         agent_id |-> agent_id,
         key_id |-> KInt(pub_key_id),
         ciphertext |-> Ct("ok", Sha256Key(pub), "n1", r, aad, TRUE)]

AgentPackageDrawn(agent_id, pub, pub_key_id, r, blob, nonce, msg_id) ==
    LET aad == AadFresh(agent_id, FStr(KInt(pub_key_id)), msg_id)
    IN  [nonce |-> HexOk(nonce),
         aad |-> aad,
         kem_ciphertext |-> HexOk(blob),
         aes_nonce |-> HexAbsent,
         encrypted_data_with_tag |-> CtAbsent,
         signature |-> Sig("b64", SigKeyOf(agent_id), r),
         agent_id |-> agent_id,
         key_id |-> KInt(pub_key_id),
         ciphertext |-> Ct("ok", Sha256Key(pub), nonce, r, aad, TRUE)]

\* the package of the agent's first call
AgentPackage(agent_id, pub, pub_key_id, r) ==
    AgentPackageDrawn(agent_id, pub, pub_key_id, r, "blob", "n1", "m1")

\* ------------------------------------------------------------ operations
Message(pkg, by, rec, built_key_id, built_pk) ==
    [pkg |-> pkg, by |-> by, rec |-> rec, built_key_id |-> built_key_id, built_pk |-> built_pk]

Outcome(msg, gate, res, reg) ==
    [pkg |-> msg.pkg,
     exit |-> res.exit,
     trace |-> res.trace,
     seen |-> gate.seen,
     plaintext |-> res.plaintext,
     verified |-> res.verified,
     dec_pk |-> res.dec_pk,
     by |-> msg.by,
     rec |-> msg.rec,
     built_key_id |-> msg.built_key_id,
     built_pk |-> msg.built_pk,
     reg |-> reg,
     appended |-> Len(res.audit)]

\* the registry's key for the package's agent_id when the call began
RegOf(pkg, agents) == IF pkg.agent_id \in DOMAIN agents THEN agents[pkg.agent_id] ELSE NONE

Init ==
    /\ key_id = 1
    /\ server_pk = KyberGenerateKeypair(1).pk
    /\ server_sk = KyberGenerateKeypair(1).sk
    /\ registered_agents = [a \in Agents |-> NONE]
    /\ audit_log = <<>>
    /\ kem_pub = 0
    /\ kem_key_id = 0
    /\ inflight = <<>>
    /\ last = <<>>
    /\ rotations = 0
    /\ rot_pc = "idle"
    /\ proc_pc = <<>>
    /\ lab = <<>>

\* get_server_public_key(): (server_pk, key_id)
GetServerPublicKey == [key_id |-> key_id, server_public_key |-> server_pk]

\* rotate_keys(), line 40
RotateIncr_Twice(k) == k + 2

RotateIncr(k) == k + 1

\* rotate_keys(): the whole call
RotateKeys ==
    /\ rot_pc = "idle"
    /\ key_id < MaxKeyId
    /\ key_id' = RotateIncr(key_id)
    /\ server_pk' = KyberGenerateKeypair(server_pk + 1).pk
    /\ server_sk' = KyberGenerateKeypair(server_sk + 1).sk
    /\ rotations' = rotations + 1
    /\ UNCHANGED <<registered_agents, audit_log, agent_vars, inflight, last, rot_pc, proc_pc>>
    /\ UNCHANGED lab

\* _convert_hex_to_bytes(hex_str): bytes.fromhex; raised: a ValueError
ConvertHexToBytes_Lenient(hex_str) == [bytes |-> hex_str.v, raised |-> FALSE]

ConvertHexToBytes(hex_str) ==
    IF hex_str.st = "badhex" THEN [bytes |-> NONE, raised |-> TRUE]
    ELSE [bytes |-> hex_str.v, raised |-> FALSE]

\* register_agent(agent_id, dilithium_pk_hex) on the registry `agents`: the
\* registry it leaves and the value it returns
RegisterAgentCall_KeepFirst(agents, agent_id, dilithium_pk_hex) ==
    LET dilithium_pk == ConvertHexToBytes(dilithium_pk_hex)
    IN  IF dilithium_pk.raised THEN [agents |-> agents, ret |-> FALSE]
        ELSE [agents |-> IF agents[agent_id] = NONE
                         THEN [agents EXCEPT ![agent_id] = dilithium_pk.bytes]
                         ELSE agents,
              ret |-> TRUE]

RegisterAgentCall(agents, agent_id, dilithium_pk_hex) ==
    LET dilithium_pk == ConvertHexToBytes(dilithium_pk_hex)
    IN  IF dilithium_pk.raised THEN [agents |-> agents, ret |-> FALSE]
        ELSE [agents |-> [agents EXCEPT ![agent_id] = dilithium_pk.bytes], ret |-> TRUE]

\* register_agent(agent_id, dilithium_pk_hex): bytes.fromhex, then the
\* assignment; a ValueError returns False
RegisterAgent(agent_id, dilithium_pk_hex) ==
    /\ registered_agents' = RegisterAgentCall(registered_agents, agent_id, dilithium_pk_hex).agents
    /\ UNCHANGED <<key_id, server_pk, server_sk, audit_log, agent_vars, inflight, last,
                   rotations, rot_pc, proc_pc>>
    /\ UNCHANGED lab

\* setup_with_server(): fetch the server key, register the signature key
AgentSetup ==
    /\ kem_pub' = GetServerPublicKey.server_public_key
    /\ kem_key_id' = GetServerPublicKey.key_id
    /\ registered_agents' = [registered_agents EXCEPT ![AgentSelf] = SigKeyOf(AgentSelf)]
    /\ UNCHANGED <<key_id, server_pk, server_sk, audit_log, inflight, last, rotations,
                   rot_pc, proc_pc>>
    /\ UNCHANGED lab

CanSend == inflight = <<>> /\ last = <<>> /\ Len(audit_log) < MaxAudit

\* send_secure_conviction_record(record): the agent's package goes out
AgentSend(r) ==
    /\ CanSend
    /\ kem_pub # 0
    /\ inflight' = <<Message(AgentPackage(AgentSelf, kem_pub, kem_key_id, r),
                             "agent", r, kem_key_id, kem_pub)>>
    /\ UNCHANGED <<server_vars, agent_vars, last, rotations, rot_pc, proc_pc>>
    /\ UNCHANGED lab

\* any sender posts a package
Submit(p) ==
    /\ CanSend
    /\ inflight' = <<Message(p, "env", "-", 0, 0)>>
    /\ UNCHANGED <<server_vars, agent_vars, last, rotations, rot_pc, proc_pc>>
    /\ UNCHANGED lab

\* process_secure_message(secure_package): the whole call
ProcessSecureMessage ==
    /\ inflight # <<>>
    /\ proc_pc = <<>>
    /\ \E coin \in Coins :
          LET msg == inflight[1]
              gate == Gates(msg.pkg, registered_agents, key_id)
              res == IF gate.exit = "pass"
                     THEN Crypto(msg.pkg, gate, registered_agents, key_id, server_pk,
                                 server_sk, coin)
                     ELSE Rejected(gate)
          IN  /\ last' = <<Outcome(msg, gate, res, RegOf(msg.pkg, registered_agents))>>
              /\ audit_log' = audit_log \o res.audit
    /\ inflight' = <<>>
    /\ UNCHANGED <<key_id, server_pk, server_sk, registered_agents, agent_vars, rotations,
                   rot_pc, proc_pc>>
    /\ UNCHANGED lab

\* the caller takes the result
Deliver ==
    /\ last # <<>>
    /\ last' = <<>>
    /\ UNCHANGED <<server_vars, agent_vars, inflight, rotations, rot_pc, proc_pc>>
    /\ UNCHANGED lab

\* the sender of an accepted package posts the identical package once more
Resubmit ==
    /\ inflight = <<>>
    /\ last # <<>>
    /\ last[1].exit = "L156"
    /\ last[1].by # "replay"
    /\ Len(audit_log) <= MaxAudit
    /\ inflight' = <<Message(last[1].pkg, "replay", last[1].rec, last[1].built_key_id,
                             last[1].built_pk)>>
    /\ last' = <<>>
    /\ UNCHANGED <<server_vars, agent_vars, rotations, rot_pc, proc_pc, lab>>

HexKeys == {HexOk(k) : k \in SigKeys} \cup {Hex("badhex", "-")}

Next ==
    \/ RotateKeys
    \/ \E a \in Agents, h \in HexKeys : RegisterAgent(a, h)
    \/ AgentSetup
    \/ \E r \in Records : AgentSend(r)
    \/ \E p \in Packages : Submit(p)
    \/ ProcessSecureMessage
    \/ Deliver
    \/ Resubmit

Spec == Init /\ [][Next]_vars


\* ------------------------------------------- the calls, statement by statement
\* The Flask server of src/app/pqc/api_server.py serves each request on a
\* thread of its own and SecureWireServer takes no lock, so a call can run
\* between two statements of another.

\* rotate_keys(), line 40: self.key_id += 1
RotateKeysL40 ==
    /\ rot_pc = "idle"
    /\ key_id < MaxKeyId
    /\ key_id' = RotateIncr(key_id)
    /\ rotations' = rotations + 1
    /\ rot_pc' = "L41"
    /\ UNCHANGED <<server_pk, server_sk, registered_agents, audit_log, agent_vars, inflight,
                   last, proc_pc>>
    /\ UNCHANGED lab

\* rotate_keys(), line 41: self.server_pk, self.server_sk = kyber_generate_keypair()
RotateKeysL41 ==
    /\ rot_pc = "L41"
    /\ server_pk' = KyberGenerateKeypair(server_pk + 1).pk
    /\ server_sk' = KyberGenerateKeypair(server_sk + 1).sk
    /\ rot_pc' = "idle"
    /\ UNCHANGED <<key_id, registered_agents, audit_log, agent_vars, inflight, last,
                   rotations, proc_pc>>
    /\ UNCHANGED lab

\* process_secure_message(), lines 60-88
ProcessGates ==
    /\ inflight # <<>>
    /\ proc_pc = <<>>
    /\ LET msg == inflight[1]
           gate == Gates(msg.pkg, registered_agents, key_id)
           reg == RegOf(msg.pkg, registered_agents)
       IN  IF gate.exit = "pass"
           THEN /\ proc_pc' = <<[gate |-> gate, reg |-> reg]>>
                /\ UNCHANGED <<inflight, last>>
           ELSE /\ last' = <<Outcome(msg, gate, Rejected(gate), reg)>>
                /\ inflight' = <<>>
                /\ UNCHANGED proc_pc
    /\ UNCHANGED <<server_vars, agent_vars, rotations, rot_pc>>
    /\ UNCHANGED lab

\* process_secure_message(), lines 90-162
ProcessCrypto ==
    /\ proc_pc # <<>>
    /\ \E coin \in Coins :
          LET msg == inflight[1]
              gate == proc_pc[1].gate
              res == Crypto(msg.pkg, gate, registered_agents, key_id, server_pk,
                            server_sk, coin)
          IN  /\ last' = <<Outcome(msg, gate, res, proc_pc[1].reg)>>
              /\ audit_log' = audit_log \o res.audit
    /\ inflight' = <<>>
    /\ proc_pc' = <<>>
    /\ UNCHANGED <<key_id, server_pk, server_sk, registered_agents, agent_vars, rotations,
                   rot_pc>>
    /\ UNCHANGED lab

NextThreads ==
    \/ RotateKeysL40
    \/ RotateKeysL41
    \/ \E a \in Agents, h \in HexKeys : RegisterAgent(a, h)
    \/ AgentSetup
    \/ \E r \in Records : AgentSend(r)
    \/ \E p \in Packages : Submit(p)
    \/ ProcessGates
    \/ ProcessCrypto
    \/ Deliver
    \/ Resubmit

SpecThreads == Init /\ [][NextThreads]_vars


\* ------------------------------------------- the primitive layer on its own
\* The functions of pqcrypto_layer.py called directly, on inputs of the
\* caller's choosing; lab keeps the arguments and the result of the call.
Nonces == {"n1", "n2"}
KemBlobs == {"blob", "junk"}
Aads == {AadStr(a, FStr(KInt(1))) : a \in Agents}
\* the secret keys a caller of decrypt_payload_with_kem may pass: those
\* generated, and 0 for bytes that are no generated secret key
SecretKeys == {KyberGenerateKeypair(g).sk : g \in KeyGens} \cup {0}

\* encrypt_payload_with_kem, then decrypt_payload_with_kem on the blob, with
\* the nonce replaced or the ciphertext altered on the way or not
LabSealOpen ==
    /\ lab = <<>>
    /\ \E enc_pk \in KeyGens, dec_pk \in KeyGens, dec_sk \in SecretKeys, pt \in Records,
          enc_aad \in Aads, dec_aad \in Aads, enc_nonce \in Nonces, dec_nonce \in Nonces,
          intact \in BOOLEAN :
          LET sealed == EncryptPayloadWithKem(enc_pk, pt, enc_aad, "blob", enc_nonce)
              blob == [sealed EXCEPT !.aes_nonce = HexOk(dec_nonce),
                                     !.encrypted_data_with_tag.intact = intact]
          IN  lab' = <<[key |-> sealed.encrypted_data_with_tag.key,
                        pt |-> pt,
                        intact |-> intact,
                        dec_pk |-> dec_pk,
                        out |-> DecryptPayloadWithKem(dec_pk, dec_sk, blob, dec_aad),
                        enc_pk |-> enc_pk,
                        dec_sk |-> dec_sk,
                        enc_aad |-> enc_aad,
                        dec_aad |-> dec_aad,
                        enc_nonce |-> enc_nonce,
                        dec_nonce |-> dec_nonce,
                        op |-> "seal_open"]>>
    /\ UNCHANGED sys_vars

\* kyber_encapsulate(public_key), twice against the same public key; the
\* random blobs of the two calls differ
LabEncapsulate ==
    /\ lab = <<>>
    /\ \E public_key \in KeyGens, b1 \in KemBlobs, b2 \in KemBlobs :
          /\ b1 # b2
          /\ lab' = <<[public_key |-> public_key,
                       op |-> "encapsulate",
                       first |-> KyberEncapsulate(public_key, b1),
                       second |-> KyberEncapsulate(public_key, b2),
                       log |-> KyberEncapsulateLog(public_key)
                               \o KyberEncapsulateLog(public_key)]>>
    /\ UNCHANGED sys_vars

\* dilithium_sign(secret_key, message), then dilithium_verify(public_key,
\* checked, signature) on the signature or on other bytes
LabSignVerify ==
    /\ lab = <<>>
    /\ \E secret_key \in SigKeys, public_key \in SigKeys, message \in Records,
          checked \in Records, other \in BOOLEAN, coin \in Coins :
          LET made == DilithiumSign(secret_key, message)
              signature == IF other THEN DilithiumSign("-", "-") ELSE made
          IN  lab' = <<[public_key |-> public_key,
                        secret_key |-> secret_key,
                        message |-> message,
                        signature |-> signature,
                        out |-> DilithiumVerify(public_key, checked, signature, coin),
                        op |-> "sign_verify",
                        checked |-> checked,
                        made |-> made]>>
    /\ UNCHANGED sys_vars

NextCrypto ==
    \/ LabSealOpen
    \/ LabEncapsulate
    \/ LabSignVerify

SpecCrypto == Init /\ [][NextCrypto]_vars


\* ---------------------------------------------------- the agent on its own
\* The agent sends record after record; lab is the sequence of the packages
\* it built, each with the return statement the server answered from.
\* Random bytes and uuid4 values are taken to differ
\* from every value drawn before: the n-th call draws the n-th name.
BlobDraws == <<"blob", "blob2", "blob3", "blob4", "blob5">>
NonceDraws == <<"n1", "n2", "n3", "n4", "n5">>
MsgIdDraws == <<"m1", "m2", "m3", "m4", "m5">>

\* send_secure_conviction_record(record): the package of lines 60-87, the
\* post of line 93 and the server's process_secure_message on it
LabPackage(r) ==
    /\ kem_pub # 0
    /\ Len(lab) < MaxCalls
    /\ \E coin \in Coins :
          LET call == Len(lab) + 1
              secure_package == AgentPackageDrawn(AgentSelf, kem_pub, kem_key_id, r,
                                                  BlobDraws[call], NonceDraws[call],
                                                  MsgIdDraws[call])
              gate == Gates(secure_package, registered_agents, key_id)
              res == IF gate.exit = "pass"
                     THEN Crypto(secure_package, gate, registered_agents, key_id, server_pk,
                                 server_sk, coin)
                     ELSE Rejected(gate)
          IN  /\ lab' = Append(lab, secure_package @@ [resp |-> res.exit])
              /\ audit_log' = audit_log \o res.audit
    /\ UNCHANGED <<key_id, server_pk, server_sk, registered_agents, agent_vars, inflight,
                   last, rotations, rot_pc, proc_pc>>

NextAgent ==
    \/ RotateKeys
    \/ AgentSetup
    \/ \E r \in Records : LabPackage(r)

SpecAgent == Init /\ [][NextAgent]_vars


\* ------------------------------------------------ registration on its own
\* register_agent of SecureWireServer on its dictionary, and the
\* /register_agent endpoint of pqc_endpoints.py on the agents table, each
\* call whole.  lab keeps the table, the last call, the registry and table
\* it found, and for each store the key of the latest successful
\* registration of each agent_id.
NoRow == [a \in Agents |-> NONE]
LabTable == IF lab = <<>> THEN {} ELSE lab[1].table
LabLatest == IF lab = <<>> THEN NoRow ELSE lab[1].latest
LabLatestDb == IF lab = <<>> THEN NoRow ELSE lab[1].latest_db

\* the endpoint on the rows `table`: select the agent's row, bytes.fromhex,
\* update the row or add one, commit; a ValueError is answered 400
RegisterEndpoint(table, agent_id, dilithium_pk_hex) ==
    LET existing == {row \in table : row.agent_id = agent_id}
        pk_bytes == ConvertHexToBytes(dilithium_pk_hex)
        new_agent == [agent_id |-> agent_id, dilithium_pk |-> pk_bytes.bytes]
    IN  IF pk_bytes.raised THEN [table |-> table, status |-> 400]
        ELSE IF existing # {}
        THEN LET existing_agent == CHOOSE row \in existing : TRUE
             IN  [table |-> (table \ {existing_agent}) \cup {new_agent}, status |-> 200]
        ELSE [table |-> table \cup {new_agent}, status |-> 200]

LabRegisterAgent(agent_id, dilithium_pk_hex) ==
    LET res == RegisterAgentCall(registered_agents, agent_id, dilithium_pk_hex)
    IN  /\ registered_agents' = res.agents
        /\ lab' = <<[ok |-> res.ret,
                     agent_id |-> agent_id,
                     op |-> "register_agent",
                     table |-> LabTable,
                     latest |-> IF res.ret
                                THEN [LabLatest EXCEPT ![agent_id] = dilithium_pk_hex.v]
                                ELSE LabLatest,
                     latest_db |-> LabLatestDb,
                     hex |-> dilithium_pk_hex,
                     before |-> registered_agents,
                     table_before |-> LabTable]>>
        /\ UNCHANGED <<key_id, server_pk, server_sk, audit_log, agent_vars, inflight, last,
                       rotations, rot_pc, proc_pc>>

LabRegisterEndpoint(agent_id, dilithium_pk_hex) ==
    LET res == RegisterEndpoint(LabTable, agent_id, dilithium_pk_hex)
    IN  /\ lab' = <<[ok |-> res.status = 200,
                     agent_id |-> agent_id,
                     op |-> "endpoint",
                     table |-> res.table,
                     latest |-> LabLatest,
                     latest_db |-> IF res.status = 200
                                   THEN [LabLatestDb EXCEPT ![agent_id] = dilithium_pk_hex.v]
                                   ELSE LabLatestDb,
                     hex |-> dilithium_pk_hex,
                     before |-> registered_agents,
                     table_before |-> LabTable]>>
        /\ UNCHANGED sys_vars

NextRegistry ==
    \/ \E a \in Agents, h \in HexKeys : LabRegisterAgent(a, h)
    \/ \E a \in Agents, h \in HexKeys : LabRegisterEndpoint(a, h)

SpecRegistry == Init /\ [][NextRegistry]_vars


\* ---------------------------------------- the endpoints of pqc_endpoints.py
\* The handlers are coroutines: a request runs up to its next await, and
\* another request may run before it resumes.  lab keeps the agents table,
\* the two request slots of /register_agent, and the last /rotate_keys
\* request with its answer.
Requests == {"q1", "q2"}
UserRoles == {"IIC", "SDPO", "SP", "COURT_LIAISON", "ADMIN"}
IdleRequest == [agent_id |-> "-",
                status |-> 0,
                existing_agent |-> FALSE,
                hex |-> Hex("absent", "-"),
                pc |-> "idle"]
EpTable == IF lab = <<>> THEN {} ELSE lab[1].table
EpReqs == IF lab = <<>> THEN [q \in Requests |-> IdleRequest] ELSE lab[1].reqs
EpRot == IF lab = <<>> THEN <<>> ELSE lab[1].rot

\* register_agent, lines 44-47: the select; the request then waits
EpSelect(q, agent_id, dilithium_pk_hex) ==
    /\ EpReqs[q].pc # "selected"
    /\ lab' = <<[table |-> EpTable,
                 reqs |-> [EpReqs EXCEPT ![q] =
                              [agent_id |-> agent_id,
                               status |-> 0,
                               existing_agent |-> \E row \in EpTable : row.agent_id = agent_id,
                               hex |-> dilithium_pk_hex,
                               pc |-> "selected"]],
                 rot |-> EpRot]>>
    /\ UNCHANGED sys_vars

\* session.commit() of a request that found no row: the INSERT; the unique
\* constraint on agents.agent_id refuses a second row (IntegrityError)
InsertAgent(table, new_agent) ==
    IF \E row \in table : row.agent_id = new_agent.agent_id
    THEN [raised |-> TRUE, table |-> table]
    ELSE [raised |-> FALSE, table |-> table \cup {new_agent}]

\* register_agent, lines 49-70: bytes.fromhex, update or add, commit, and
\* the answer: 200, 400 for the ValueError, 500 for any other exception
EpCommit(q) ==
    /\ EpReqs[q].pc = "selected"
    /\ LET req == EpReqs[q]
           pk_bytes == ConvertHexToBytes(req.hex)
           new_agent == [agent_id |-> req.agent_id, dilithium_pk |-> pk_bytes.bytes]
           inserted == InsertAgent(EpTable, new_agent)
           updated == {row \in EpTable : row.agent_id # req.agent_id} \cup {new_agent}
           done(table, status) ==
               <<[table |-> table,
                  reqs |-> [EpReqs EXCEPT ![q] = [req EXCEPT !.pc = "done", !.status = status]],
                  rot |-> EpRot]>>
       IN  lab' = IF pk_bytes.raised THEN done(EpTable, 400)
                  ELSE IF req.existing_agent THEN done(updated, 200)
                  ELSE IF inserted.raised THEN done(EpTable, 500)
                  ELSE done(inserted.table, 200)
    /\ UNCHANGED sys_vars

\* rotate_keys() hands back the tuple (server_pk, key_id); value["key_id"]
\* on a tuple is a TypeError
RotateKeysReturn(pk, k) == [ty |-> "tuple", items |-> <<pk, k>>]
GetItem(value, name) ==
    IF value.ty = "tuple" THEN [raised |-> TRUE, item |-> 0]
    ELSE [raised |-> FALSE, item |-> value.items[name]]

\* /rotate_keys, lines 82-96, by a user of the given role
EpRotate(role) ==
    LET refused == role # "ADMIN"
        new_key_info == RotateKeysReturn(KyberGenerateKeypair(server_pk + 1).pk,
                                         RotateIncr(key_id))
        new_key_id == GetItem(new_key_info, "key_id")
        answer == [status |-> IF refused THEN 403
                              ELSE IF new_key_id.raised THEN 500 ELSE 200,
                   role |-> role,
                   new_key_id |-> IF refused \/ new_key_id.raised THEN 0
                                  ELSE new_key_id.item,
                   key_id_before |-> key_id,
                   pk_before |-> server_pk]
    IN  /\ lab' = <<[table |-> EpTable, reqs |-> EpReqs, rot |-> <<answer>>]>>
        /\ IF refused
           THEN UNCHANGED <<key_id, server_pk, server_sk, rotations>>
           ELSE /\ key_id < MaxKeyId
                /\ key_id' = RotateIncr(key_id)
                /\ server_pk' = KyberGenerateKeypair(server_pk + 1).pk
                /\ server_sk' = KyberGenerateKeypair(server_sk + 1).sk
                /\ rotations' = rotations + 1
        /\ UNCHANGED <<registered_agents, audit_log, agent_vars, inflight, last, rot_pc,
                       proc_pc>>

NextEndpoints ==
    \/ \E q \in Requests, a \in Agents, h \in HexKeys : EpSelect(q, a, h)
    \/ \E q \in Requests : EpCommit(q)
    \/ \E role \in UserRoles : EpRotate(role)

SpecEndpoints == Init /\ [][NextEndpoints]_vars


\* ------------------------------------------- /secure_ingest of cases.py
\* lab keeps the agents table, the conviction_cases collection and the last
\* request with its answer.
IngestTable == IF lab = <<>> THEN {} ELSE lab[1].table
IngestStore == IF lab = <<>> THEN <<>> ELSE lab[1].store
IngestLast == IF lab = <<>> THEN <<>> ELSE lab[1].req

\* the decrypted payload as text: the JSON of a record, or other text
JsonText(r) == [fmt |-> "json", rec |-> r]
OtherText(r) == [fmt |-> "text", rec |-> r]
JsonLoads(text) ==
    IF text.fmt = "json" THEN [raised |-> FALSE, value |-> text.rec]
    ELSE [raised |-> TRUE, value |-> NONE]

\* what pqc_server.process_secure_message(package, dilithium_pk) hands to
\* the endpoint: a dict with a status (and the plaintext when "ok"), or an
\* exception; SecureWireServer.process_secure_message takes one argument
\* and answers the two-argument call with a TypeError
ProcessResults ==
    {[plaintext |-> t, status |-> st, kind |-> "dict"] :
        st \in {"ok", "error"},
        t \in {JsonText(r) : r \in Records} \cup {OtherText(r) : r \in Records}}
    \cup {[plaintext |-> OtherText("r1"), status |-> "TypeError", kind |-> "raise"]}

\* the handler on the rows `table` and the collection `store`: 503 without
\* the embedding client; every exception raised inside the try, the
\* HTTPException 401 and 400 included, is answered 500
SecureIngestCase_AnyStatus(table, store, agent_id, result, embeddings_client, embedded) ==
    LET case_data == JsonLoads(result.plaintext)
    IN  IF ~embeddings_client THEN [status |-> 503, store |-> store]
        ELSE IF \A row \in table : row.agent_id # agent_id THEN [status |-> 500, store |-> store]
        ELSE IF result.kind = "raise" THEN [status |-> 500, store |-> store]
        ELSE IF case_data.raised THEN [status |-> 500, store |-> store]
        ELSE IF ~embedded THEN [status |-> 500, store |-> store]
        ELSE [status |-> 200,
              store |-> Append(store, [case |-> case_data.value, case_embedding |-> "e"])]

SecureIngestCase(table, store, agent_id, result, embeddings_client, embedded) ==
    LET case_data == JsonLoads(result.plaintext)
    IN  IF ~embeddings_client THEN [status |-> 503, store |-> store]
        ELSE IF \A row \in table : row.agent_id # agent_id THEN [status |-> 500, store |-> store]
        ELSE IF result.kind = "raise" THEN [status |-> 500, store |-> store]
        ELSE IF result.status # "ok" THEN [status |-> 500, store |-> store]
        ELSE IF case_data.raised THEN [status |-> 500, store |-> store]
        ELSE IF ~embedded THEN [status |-> 500, store |-> store]
        ELSE [status |-> 200,
              store |-> Append(store, [case |-> case_data.value, case_embedding |-> "e"])]

IngestRegister(agent_id, dilithium_pk_hex) ==
    /\ lab' = <<[table |-> RegisterEndpoint(IngestTable, agent_id, dilithium_pk_hex).table,
                 req |-> IngestLast,
                 store |-> IngestStore]>>
    /\ UNCHANGED sys_vars

IngestCase(agent_id, result, embeddings_client, embedded) ==
    /\ Len(IngestStore) < MaxDocs
    /\ LET res == SecureIngestCase(IngestTable, IngestStore, agent_id, result,
                                   embeddings_client, embedded)
       IN  lab' = <<[table |-> IngestTable,
                     req |-> <<[agent_id |-> agent_id,
                                status |-> res.status,
                                result |-> result,
                                found |-> \E row \in IngestTable : row.agent_id = agent_id,
                                store_before |-> IngestStore]>>,
                     store |-> res.store]>>
    /\ UNCHANGED sys_vars

NextIngest ==
    \/ \E a \in Agents, h \in HexKeys : IngestRegister(a, h)
    \/ \E a \in Agents, result \in ProcessResults, c \in BOOLEAN, e \in BOOLEAN :
          IngestCase(a, result, c, e)

SpecIngest == Init /\ [][NextIngest]_vars


\* ----------------------------------------------------------------- claims
Range(q) == {q[i] : i \in DOMAIN q}

\* the package's key_id is the integer n
IsKeyInt(pkg, n) == pkg.key_id = KInt(n)

\* the package is the one encrypt_payload_with_kem and dilithium_sign build
\* for its agent under the key generation and key id the call found current
ValidNow(o) == o.pkg \in {WirePackage(a, KInt(o.seen), o.seen, r) : a \in Agents, r \in Records}

\* C1: a package carrying key_id n that reaches process_secure_message when
\* the server's key_id is already larger than n yields no plaintext, no
\* audit entry and no decryption, is not kept in flight, and - when its
\* agent is registered - returns at the key-id mismatch (line 88).
C1_StaleKeyRejected ==
    last # <<>> =>
        LET o == last[1]
        IN  (\E n \in KeyGens : IsKeyInt(o.pkg, n) /\ n < o.seen) =>
                /\ o.plaintext = NONE
                /\ ~o.verified
                /\ o.appended = 0
                /\ "decrypt" \notin Range(o.trace)
                /\ o.exit \in {"L72", "L88"}
                /\ (o.reg # NONE /\ o.pkg.agent_id \in Agents => o.exit = "L88")
                /\ inflight = <<>>

\* C1 witness: a package built under generation n for a registered agent,
\* valid before the rotation, is turned away at line 88 after it
C1_Witness ==
    /\ last # <<>>
    /\ last[1].exit = "L88"
    /\ last[1].reg # NONE
    /\ \E n \in KeyGens :
          /\ n < last[1].seen
          /\ last[1].pkg = WirePackage(last[1].pkg.agent_id, KInt(n), n, "r1")

\* C2: a package whose agent_id has no registry entry returns at the basic
\* validation (line 72) before the key-id comparison, any decryption and any
\* verification, with no plaintext and no audit entry.
C2_UnknownAgentBeforeDecryption ==
    last # <<>> =>
        LET o == last[1]
        IN  o.reg = NONE =>
                /\ o.exit = "L72"
                /\ Range(o.trace) \cap {"keyid", "decrypt", "verify", "audit"} = {}
                /\ o.plaintext = NONE
                /\ o.appended = 0

\* C2 witness: an unregistered agent's package that is otherwise valid under
\* the current key
C2_Witness ==
    /\ last # <<>>
    /\ last[1].reg = NONE
    /\ ValidNow(last[1])
    /\ last[1].exit = "L72"

\* C6: key_id is 1 plus the number of rotate_keys calls, and the keypair is
\* the one generated by the latest of them, whatever else has run.
C6_KeyIdCountsRotations ==
    /\ key_id = 1 + rotations
    /\ server_pk = KyberGenerateKeypair(1 + rotations).pk
    /\ server_sk = KyberGenerateKeypair(1 + rotations).sk

\* C6 witness: a rotation has happened, and so have a setup, a registration
\* and an accepted package
C6_Witness ==
    /\ rotations >= 1
    /\ key_id = 1 + rotations
    /\ kem_pub # 0
    /\ audit_log # <<>>

\* C8: a package of a registered agent with the current key_id whose
\* ciphertext bytes were altered returns at the decryption gate (line 122)
\* and dilithium_verify is not reached.
C8_TamperFailsAtDecryption ==
    last # <<>> =>
        LET o == last[1]
            ct == o.pkg.encrypted_data_with_tag
        IN  (/\ o.reg # NONE
             /\ IsKeyInt(o.pkg, o.seen)
             /\ ~HexFails(o.pkg)
             /\ ct.st = "ok" /\ ~ct.intact) =>
                /\ o.exit = "L122"
                /\ "verify" \notin Range(o.trace)
                /\ o.plaintext = NONE
                /\ o.appended = 0

\* C8 witness: an otherwise valid package with altered ciphertext bytes
C8_Witness ==
    /\ last # <<>>
    /\ last[1].reg # NONE
    /\ ~last[1].pkg.encrypted_data_with_tag.intact
    /\ [last[1] EXCEPT !.pkg.encrypted_data_with_tag.intact = TRUE].pkg
          \in {WirePackage(a, KInt(last[1].seen), last[1].seen, "r1") : a \in Agents}
    /\ last[1].exit = "L122"


\* step 1 of the pipeline: every field process_secure_message needs is
\* present and non-empty
RequiredPresent(pkg) ==
    /\ pkg.agent_id \notin {NONE, ""}
    /\ Truthy(pkg.key_id)
    /\ pkg.kem_ciphertext.st \notin {"absent", "empty"}
    /\ pkg.aes_nonce.st \notin {"absent", "empty"}
    /\ pkg.encrypted_data_with_tag.st \notin {"absent", "empty"}
    /\ pkg.signature.st \notin {"absent", "empty"}
    /\ pkg.aad # AadAbsent

\* C3: a package is accepted only if its signature was made over the
\* recovered plaintext with the secret key of the public key the registry
\* held for its agent_id.
C3_AcceptedOnlyIfGenuine ==
    last # <<>> =>
        LET o == last[1]
        IN  o.plaintext # NONE => GenuineSignature(o.reg, o.plaintext, o.pkg.signature)

\* the five gates as the call took them: fields present, agent registered,
\* key_id current, decryption done and not failed, verification done and
\* not failed
AllFiveGates(o) ==
    /\ RequiredPresent(o.pkg)
    /\ o.reg # NONE
    /\ PyInt(o.pkg.key_id).ok /\ PyInt(o.pkg.key_id).n = o.seen
    /\ "decrypt" \in Range(o.trace) /\ o.exit # "L122"
    /\ "verify" \in Range(o.trace) /\ o.exit # "L144"

\* C4: a result carries plaintext if and only if all five gates passed.
C4_PlaintextIffAllGates ==
    last # <<>> => (last[1].plaintext # NONE <=> AllFiveGates(last[1]))

\* C5: a package the agent builds for record R against the server's current
\* public key and key_id, the agent being registered, is accepted and the
\* plaintext returned is R.
C5_AgentPackageAccepted ==
    last # <<>> =>
        LET o == last[1]
        IN  (/\ o.by = "agent"
             /\ o.reg # NONE
             /\ o.built_key_id = o.seen
             /\ o.built_pk = server_pk) =>
                /\ o.exit = "L156"
                /\ o.plaintext = o.rec

\* C7: the public key and key_id a reader obtains belong to one generation:
\* what get_server_public_key handed the agent, and the key_id a package
\* passed the gate with and the keypair it was decrypted with.
C7_OneGeneration ==
    /\ kem_pub # 0 => KyberGenerateKeypair(kem_key_id).pk = kem_pub
    /\ last # <<>> /\ last[1].dec_pk # 0 =>
          KyberGenerateKeypair(last[1].seen).pk = last[1].dec_pk

\* C9: a package missing a required field, or carrying it empty, returns at
\* the first gate, before the registry lookup, the key-id comparison and
\* any decryption.
C9_MalformedAtFirstGate ==
    last # <<>> =>
        LET o == last[1]
        IN  ~RequiredPresent(o.pkg) =>
                /\ o.exit = "L72"
                /\ o.trace = <<>>
                /\ o.plaintext = NONE

\* the failure kind each failing return statement stands for
FailureKind(exit) ==
    CASE exit = "L72" -> "UnknownAgent"
      [] exit = "L81" -> "MalformedPackage"
      [] exit = "L88" -> "KeyIdMismatch"
      [] exit = "L122" -> "AuthenticationFailure"
      [] exit = "L144" -> "SignatureInvalid"
      [] OTHER -> "MalformedPackage"
FailingExits == {"L72", "L81", "L88", "L122", "L144", "L162"}

\* C10: the value a rejection returns tells its failure kind: no return
\* statement of another kind hands back the same value.
C10_KindsDistinguishable ==
    last # <<>> /\ last[1].exit \in FailingExits =>
        \A e \in FailingExits :
            FailureKind(e) # FailureKind(last[1].exit) =>
                ReturnAt(e) # [plaintext |-> last[1].plaintext, verified |-> last[1].verified]

\* C11: the AAD the server decrypts with is the aad entry the package
\* carries: a package whose aad entry differs from the AAD its ciphertext was
\* sealed with fails at decryption (line 122), and a package whose aad entry
\* is the AAD of its ciphertext, sealed under the key and nonce the server
\* uses, does not fail there.
C11_AadAsTransmitted ==
    last # <<>> =>
        LET o == last[1]
            ct == o.pkg.encrypted_data_with_tag
        IN  "decrypt" \in Range(o.trace) /\ ct.st = "ok" =>
                /\ AadData(o.pkg.agent_id, o.pkg.key_id) = o.pkg.aad
                /\ o.pkg.aad # ct.aad => o.exit = "L122"
                /\ (/\ o.pkg.aad = ct.aad
                    /\ ct.key = Sha256Key(o.dec_pk)
                    /\ ct.nonce = o.pkg.aes_nonce.v
                    /\ ct.intact) => o.exit # "L122"

\* the call made on the component was `op`
LabOp(op) == lab # <<>> /\ lab[1].op = op

\* C12: decrypt_payload_with_kem on the output of encrypt_payload_with_kem
\* returns the plaintext when key, nonce, AAD and ciphertext are the same,
\* and returns None, never another plaintext, when any of them differs.
C12_RoundTripOrNone ==
    LabOp("seal_open") =>
        LET c == lab[1]
            same == /\ Sha256Key(c.dec_pk) = c.key
                    /\ c.dec_nonce = c.enc_nonce
                    /\ c.dec_aad = c.enc_aad
                    /\ c.intact
        IN  c.out = IF same THEN c.pt ELSE NONE

C12_Witness ==
    /\ LabOp("seal_open")
    /\ lab[1].dec_pk = lab[1].enc_pk
    /\ lab[1].dec_nonce = lab[1].enc_nonce
    /\ lab[1].dec_aad = lab[1].enc_aad
    /\ lab[1].intact
    /\ lab[1].out = lab[1].pt

\* C13: dilithium_verify answers true for the signature dilithium_sign made
\* with the secret key of the public key over the message checked, and false
\* when the message or the signature is another.
C13_VerifyIffSigned ==
    LabOp("sign_verify") =>
        LET c == lab[1]
        IN  /\ (/\ c.public_key = c.secret_key
                /\ c.checked = c.message
                /\ c.signature = c.made) => c.out
            /\ (c.checked # c.message \/ c.signature # c.made) => ~c.out

\* C14: the key that opens a sealed payload is obtained only with the
\* server's KEM secret key: decrypt_payload_with_kem called with the public
\* key and the transmitted blob, but without the secret key of the keypair
\* sealed to, returns no plaintext, and the AEAD key is not the hash of the
\* public key.
C14_KeyNeedsSecretKey ==
    LabOp("seal_open") =>
        LET c == lab[1]
        IN  /\ c.dec_sk # KyberGenerateKeypair(c.enc_pk).sk => c.out = NONE
            /\ c.key # Sha256Key(KyberGenerateKeypair(c.enc_pk).pk)

\* C15: two calls of kyber_encapsulate against the same public key yield
\* different shared secrets.
C15_FreshSharedSecret ==
    LabOp("encapsulate") => lab[1].first.key # lab[1].second.key

\* C16: a package whose kem_ciphertext is empty, not hex, missing, or bytes
\* that no encapsulation for this package produced, is rejected: no
\* plaintext, no audit entry.
C16_ForeignKemCiphertextRejected ==
    last # <<>> =>
        LET o == last[1]
        IN  o.pkg.kem_ciphertext # HexOk(KyberEncapsulate(o.seen, "blob").ct) =>
                /\ o.plaintext = NONE
                /\ o.appended = 0

\* C18: a package that process_secure_message accepted and that is posted
\* once more is not accepted again.
C18_AcceptedOnce ==
    last # <<>> /\ last[1].by = "replay" =>
        /\ last[1].plaintext = NONE
        /\ last[1].appended = 0

RowsOf(table, a) == {row.dilithium_pk : row \in {x \in table : x.agent_id = a}}

\* C19: after any sequence of registrations each store holds at most one
\* entry per agent_id, that entry is the key of the latest successful
\* registration of that agent_id, the last call left the entries of the
\* other agent_ids as they were, and making the last call once more leaves
\* the store as it is.
C19_IdempotentUpsert ==
    lab # <<>> =>
        LET c == lab[1]
        IN  /\ registered_agents = c.latest
            /\ \A a \in Agents :
                   RowsOf(c.table, a) = IF c.latest_db[a] = NONE THEN {} ELSE {c.latest_db[a]}
            /\ Cardinality(c.table) <= Cardinality(Agents)
            /\ \A a \in Agents \ {c.agent_id} :
                   /\ registered_agents[a] = c.before[a]
                   /\ RowsOf(c.table, a) = RowsOf(c.table_before, a)
            /\ c.op = "register_agent" =>
                   RegisterAgentCall(registered_agents, c.agent_id, c.hex).agents
                       = registered_agents
            /\ c.op = "endpoint" =>
                   RegisterEndpoint(c.table, c.agent_id, c.hex).table = c.table

C19_Witness ==
    /\ lab # <<>>
    /\ lab[1].op = "register_agent"
    /\ lab[1].ok
    /\ lab[1].before[lab[1].agent_id] \notin {NONE, lab[1].hex.v}
    /\ \E a \in Agents \ {lab[1].agent_id} : registered_agents[a] # NONE
    /\ lab[1].table # {}

\* C20: a registration whose public key is not hex fails - register_agent
\* returns False, the endpoint answers 400 - and leaves the store as it
\* was: no entry for a new agent_id, the previous key for a known one.
C20_BadHexChangesNothing ==
    lab # <<>> /\ lab[1].hex.st = "badhex" =>
        /\ ~lab[1].ok
        /\ registered_agents = lab[1].before
        /\ lab[1].table = lab[1].table_before

C20_Witness ==
    /\ lab # <<>>
    /\ lab[1].hex.st = "badhex"
    /\ lab[1].op = "register_agent"
    /\ lab[1].before[lab[1].agent_id] # NONE
    /\ \E a \in Agents : lab[1].before[a] = NONE

\* C21: process_secure_message returns a result for every package: no
\* exception leaves the method.
C21_AlwaysReturns ==
    last # <<>> => last[1].exit # "raise"

\* C22: a process_secure_message call that hands back no plaintext leaves
\* the server as it found it: it appends nothing to the audit log.
C22_RejectionChangesNothing ==
    last # <<>> /\ last[1].plaintext = NONE => last[1].appended = 0

\* C23: a package passes the key-id gate only if its key_id is the server's
\* current key_id itself, as the integer or as its plain decimal text: a
\* padded string, a float or a boolean that converts to it does not pass.
C23_ExactKeyId ==
    last # <<>> =>
        LET o == last[1]
        IN  "keyid" \in Range(o.trace) /\ o.exit # "L88" =>
                o.pkg.key_id \in {KInt(o.seen), KStr(o.seen, "dec")}

\* the package built for agent a under the generation and key id the call
\* found current, with its agent_id entry rewritten to the other agent
Reattributed(o) ==
    \E a \in Agents, r \in Records :
        o.pkg = [WirePackage(a, KInt(o.seen), o.seen, r) EXCEPT !.agent_id = OtherAgent(a)]

\* C28: a package valid for one registered agent whose agent_id is
\* rewritten to another registered agent fails at decryption (line 122),
\* and every accepted package names the agent its ciphertext was sealed for.
C28_AadBindsAgent ==
    last # <<>> =>
        LET o == last[1]
        IN  /\ Reattributed(o) /\ o.reg # NONE =>
                   /\ o.exit = "L122"
                   /\ o.plaintext = NONE
                   /\ o.appended = 0
            /\ o.plaintext # NONE =>
                   o.pkg.encrypted_data_with_tag.aad.agent = o.pkg.agent_id

C28_Witness ==
    /\ last # <<>>
    /\ Reattributed(last[1])
    /\ last[1].reg # NONE
    /\ registered_agents[OtherAgent(last[1].pkg.agent_id)] # NONE
    /\ last[1].exit = "L122"

\* C29: a call appends one audit entry exactly when it accepts its package,
\* and the entry names the package's agent_id and the key_id the package
\* passed the key-id gate with, also when rotate_keys runs during the call.
C29_AuditEntryPerAccept ==
    last # <<>> =>
        LET o == last[1]
        IN  /\ o.appended = IF o.plaintext # NONE THEN 1 ELSE 0
            /\ o.appended = 1 =>
                   /\ audit_log[Len(audit_log)].agent_id = o.pkg.agent_id
                   /\ audit_log[Len(audit_log)].key_id = o.seen

\* what must not appear in a log record
SecretMaterial == {"plaintext", "secret_key", "shared_secret"}

\* C26: no record kyber_encapsulate writes to the log contains any part of
\* the plaintext, of a secret key or of the KEM shared secret.
C26_NoSecretLogged ==
    LabOp("encapsulate") =>
        \A i \in DOMAIN lab[1].log :
            \A c \in lab[1].log[i].contains : c.what \notin SecretMaterial

\* C25: after the server answered one of the agent's packages with a
\* key-id mismatch (line 88), the agent's next package is built from a
\* re-fetched key: it does not carry the rejected key_id again.
C25_RefetchAfterMismatch ==
    \A i \in DOMAIN lab :
        i + 1 \in DOMAIN lab /\ lab[i].resp = "L88" => lab[i + 1].key_id # lab[i].key_id

\* C24: a /rotate_keys request by a user who is not ADMIN is answered 403
\* and leaves key_id and the keypair as they were; a request by an ADMIN is
\* answered 200, advances key_id by one and reports the new key id.
C24_RotateAdminOnly ==
    EpRot # <<>> =>
        LET r == EpRot[1]
        IN  IF r.role # "ADMIN"
            THEN /\ r.status = 403
                 /\ key_id = r.key_id_before
                 /\ server_pk = r.pk_before
            ELSE /\ r.status = 200
                 /\ key_id = r.key_id_before + 1
                 /\ r.new_key_id = key_id

\* two requests of /register_agent for one agent_id that both found no row
\* for it, both with a hex key, both answered
Overlapped(reqs) ==
    /\ \A q \in Requests : reqs[q].pc = "done" /\ ~reqs[q].existing_agent
                             /\ reqs[q].hex.st = "ok"
    /\ reqs["q1"].agent_id = reqs["q2"].agent_id

\* C30: two overlapping registrations of one new agent_id are both
\* acknowledged and leave one row for it, holding the key of one of them.
C30_BothAcknowledged ==
    lab # <<>> /\ Overlapped(EpReqs) =>
        /\ \A q \in Requests : EpReqs[q].status = 200
        /\ \E q \in Requests :
               RowsOf(EpTable, EpReqs[q].agent_id) = {EpReqs[q].hex.v}

\* the request was for a registered agent and processing reported success
IngestAccepted(r) == r.found /\ r.result.kind = "dict" /\ r.result.status = "ok"

=============================================================================
